---- MODULE Spec2Model ----
(***************************************************************************)
(* A model of metal/end_model/end_model.py: the EndModel classifier, its   *)
(* configuration, the network it assembles at construction, the label      *)
(* preprocessing and the train / predict_proba lifecycle.                  *)
(*                                                                         *)
(* Tensors are modelled by their dtype, their number of dimensions and     *)
(* their rows.  Network parameters are modelled per module by the reset    *)
(* that last initialised them and the train call that last optimised them. *)
(* Dropout rates are in hundredths (50 is 0.5).                             *)
(***************************************************************************)
EXTENDS Integers, Sequences, FiniteSets, TLC

\* ------------------------------------------------------------------ bounds
MaxDim == 2          \* widths of layers range over 1..MaxDim
MaxLayers == 2       \* layer_out_dims has 1..MaxLayers entries
MaxK == 3            \* cardinalities range over 2..MaxK
MaxN == 2            \* tensors have 1..MaxN rows
MaxLabel == 2        \* hard labels range over 0..MaxLabel
MaxCalls == 2        \* number of train calls in one behaviour

Dims == 1..MaxDim
DropoutRates == {0, 25, 50}
BatchSizes == {1, 2}
WorkerCounts == {0, 1}

RECURSIVE SeqsUpTo(_, _)
SeqsUpTo(S, n) ==
  IF n = 0 THEN {<<>>}
  ELSE LET shorter == SeqsUpTo(S, n - 1)
       IN shorter \cup {Append(s, e) : s \in {t \in shorter : Len(t) = n - 1}, e \in S}

LayerOutDims == SeqsUpTo(Dims, MaxLayers) \ {<<>>}

\* ----------------------------------------------------------- configuration
\* A configuration is a mapping from option names to values; a value is a
\* scalar (Val) or a nested mapping (Sub).
Val(v) == [t |-> "s", v |-> v]
Sub(m) == [t |-> "m", m |-> m]
EmptyDict == [key \in {} |-> Val(0)]
Dict1(key, v) == [x \in {key} |-> v]

\* Merge of y into a copy of x: a key of y whose value is a mapping on both
\* sides is merged recursively, any other key of y takes y's value, and the
\* keys of x absent from y keep x's value.
RECURSIVE recursive_merge_dicts(_, _)
recursive_merge_dicts(x, y) ==
  [key \in (DOMAIN x) \cup (DOMAIN y) |->
     IF key \notin DOMAIN y THEN x[key]
     ELSE IF key \in DOMAIN x /\ x[key].t = "m" /\ y[key].t = "m"
          THEN Sub(recursive_merge_dicts(x[key].m, y[key].m))
          ELSE y[key]]

em_default_config ==
  [layer_out_dims |-> Val(<<2, 1>>),
   batchnorm |-> Val(FALSE),
   dropout |-> Val(0),
   verbose |-> Val(TRUE),
   train_config |->
     Sub([data_loader_config |->
            Sub([batch_size |-> Val(2), num_workers |-> Val(1)])])]

\* The overrides a caller passes: at most one top-level option together
\* with at most one (possibly empty) nested train_config override.
TopOverrides ==
  {EmptyDict}
  \cup {Dict1("layer_out_dims", Val(d)) : d \in LayerOutDims}
  \cup {Dict1("batchnorm", Val(b)) : b \in BOOLEAN}
  \cup {Dict1("dropout", Val(r)) : r \in DropoutRates}

LoaderOverrides ==
  {EmptyDict}
  \cup {Dict1("batch_size", Val(b)) : b \in BatchSizes}
  \cup {Dict1("num_workers", Val(w)) : w \in WorkerCounts}

NestedOverrides ==
  {EmptyDict, Dict1("train_config", Sub(EmptyDict))}
  \cup {Dict1("train_config", Sub(Dict1("data_loader_config", Sub(l)))) :
          l \in LoaderOverrides}

\* The overrides of update_config: a top-level override (with one of two
\* values of layer_out_dims) merged with a nested one.
UpdateTopOverrides ==
  {u \in TopOverrides :
     "layer_out_dims" \in DOMAIN u => u.layer_out_dims.v \in {<<1>>, <<1, 2>>}}
Overrides ==
  {recursive_merge_dicts(a, b) : a \in UpdateTopOverrides, b \in NestedOverrides}

\* ------------------------------------------------------------------ modules
Module(type, a, b) == [type |-> type, a |-> a, b |-> b]
IdentityModule == Module("IdentityModule", 0, 0)
Linear(in, out) == Module("Linear", in, out)
ReLU == Module("ReLU", 0, 0)
BatchNorm1d(n) == Module("BatchNorm1d", n, n)
Dropout(p) == Module("Dropout", p, 0)
\* A caller-supplied module mapping width in to width out, with or without
\* a reset_parameters method.
Custom(in, out, resettable) ==
  Module(IF resettable THEN "Custom" ELSE "CustomNoReset", in, out)
Sequential(mods) == [type |-> "Sequential", mods |-> mods]

\* Python's None for a module argument, and for the output_dim argument.
None == [type |-> "None"]
NoneDim == -1
\* A caller-supplied list of middle modules.
ModuleList(mods) == [type |-> "list", mods |-> mods]

\* _make_layer with the dropout stage appended before the normalisation.
_make_layer_dropout_first(config, module, output_dim) ==
  IF module.type = "IdentityModule" THEN module
  ELSE LET l1 == <<module, ReLU>>
           l2 == IF config.dropout.v /= 0
                 THEN Append(l1, Dropout(config.dropout.v)) ELSE l1
           l3 == IF config.batchnorm.v /\ output_dim \notin {NoneDim, 0}
                 THEN Append(l2, BatchNorm1d(output_dim)) ELSE l2
       IN Sequential(l3)

\* EndModel._make_layer
_make_layer(config, module, output_dim) ==
  IF module.type = "IdentityModule" THEN module
  ELSE LET l1 == <<module, ReLU>>
           l2 == IF config.batchnorm.v /\ output_dim \notin {NoneDim, 0}
                 THEN Append(l1, BatchNorm1d(output_dim)) ELSE l1
           l3 == IF config.dropout.v /= 0
                 THEN Append(l2, Dropout(config.dropout.v)) ELSE l2
       IN Sequential(l3)

\* EndModel._build_input_layer
_build_input_layer(config, input_module) ==
  LET module == IF input_module = None THEN IdentityModule ELSE input_module
      output_dim == config.layer_out_dims.v[1]
  IN _make_layer(config, module, output_dim)

\* _build_middle_layers with the synthesised linear map taken from
\* layer_out_dims[i:i+2], one position too far.
_build_middle_layers_shifted(config, middle_modules) ==
  LET layer_out_dims == config.layer_out_dims.v
      num_layers == Len(layer_out_dims)
  IN [i \in 1..(num_layers - 1) |->
        IF middle_modules = None
        THEN _make_layer(config, Linear(layer_out_dims[i + 1], layer_out_dims[i + 1]),
                         layer_out_dims[i + 1])
        ELSE _make_layer(config, middle_modules.mods[i], NoneDim)]

\* EndModel._build_middle_layers: one layer per index 1..num_layers-1 of
\* layer_out_dims (0-based), i.e. per position i+1 of the 1-based sequence.
_build_middle_layers(config, middle_modules) ==
  LET layer_out_dims == config.layer_out_dims.v
      num_layers == Len(layer_out_dims)
  IN [i \in 1..(num_layers - 1) |->
        IF middle_modules = None
        THEN _make_layer(config, Linear(layer_out_dims[i], layer_out_dims[i + 1]),
                         layer_out_dims[i + 1])
        ELSE _make_layer(config, middle_modules.mods[i], NoneDim)]

\* EndModel._build_task_head
_build_task_head(config, k, head_module) ==
  IF head_module = None
  THEN Linear(config.layer_out_dims.v[Len(config.layer_out_dims.v)], k)
  ELSE head_module

\* EndModel._build: nn.Sequential(input_layer, *middle_layers, head)
_build(config, k, input_module, middle_modules, head_module) ==
  <<_build_input_layer(config, input_module)>>
  \o _build_middle_layers(config, middle_modules)
  \o <<_build_task_head(config, k, head_module)>>

\* ------------------------------------------------------------------ tensors
\* A tensor: dtype "long" (torch.LongTensor) or "float", dim 1 or 2, and its
\* rows; a 1-D tensor of n entries has n rows of one entry.
Tensor(dtype, dim, rows) == [dtype |-> dtype, dim |-> dim, rows |-> rows]
NumRows(Y) == Len(Y.rows)
NumCols(Y) == Len(Y.rows[1])
Shape(Y) == IF Y.dim = 1 THEN <<NumRows(Y)>> ELSE <<NumRows(Y), NumCols(Y)>>

RECURSIVE SeqMax(_)
SeqMax(s) ==
  IF Len(s) = 1 THEN s[1]
  ELSE LET m == SeqMax(Tail(s)) IN IF s[1] > m THEN s[1] ELSE m

\* Y.max()
TensorMax(Y) == SeqMax([i \in 1..NumRows(Y) |-> SeqMax(Y.rows[i])])

\* metal.utils.hard_to_soft: one row per label, one column per class 0..k,
\* a single 1 in the column of the label.
hard_to_soft(Y, k) ==
  Tensor("float", 2,
         [i \in 1..NumRows(Y) |->
            [j \in 1..(k + 1) |-> IF Y.rows[i][1] = j - 1 THEN 1 ELSE 0]])

\* Classifier._check(var, typ=...): TRUE when the type assertion passes.
_check(var, typ) == var.dtype = typ

Raise(error) == [raised |-> TRUE, error |-> error]
Return(value) == [raised |-> FALSE, value |-> value]

\* Y[:, :-1]
DropLastColumn(Y) ==
  Tensor(Y.dtype, 2, [i \in 1..NumRows(Y) |-> SubSeq(Y.rows[i], 1, Len(Y.rows[i]) - 1)])

\* Y[:, 1:]
DropFirstColumn(Y) ==
  Tensor(Y.dtype, 2, [i \in 1..NumRows(Y) |-> Tail(Y.rows[i])])

\* _preprocess_Y with the type check made before the test of the shape.
_preprocess_Y_check_first(Y) ==
  IF Y.dtype /= "long" /\ ~_check(Y, "long")
  THEN Raise("TypeConversionError")
  ELSE IF Y.dim = 1 \/ NumCols(Y) = 1
       THEN Return(Tensor("float", 2, [i \in 1..NumRows(Y) |-> Tail(hard_to_soft(Y, TensorMax(Y)).rows[i])]))
       ELSE Return(Y)

\* EndModel._preprocess_Y
_preprocess_Y(Y) ==
  IF Y.dim = 1 \/ NumCols(Y) = 1
  THEN IF Y.dtype /= "long" /\ ~_check(Y, "long")
       THEN Raise("TypeConversionError")
       ELSE Return(DropFirstColumn(hard_to_soft(Y, TensorMax(Y))))
  ELSE Return(Y)

Rows(n, width, S) == [1..n -> [1..width -> S]]
HardYs ==
  {Tensor(t, d, r) : t \in {"long", "float"}, d \in {1, 2},
                     r \in UNION {Rows(n, 1, 0..MaxLabel) : n \in 1..MaxN}}
SoftYs ==
  {Tensor(t, 2, r) : t \in {"long", "float"},
                     r \in UNION {Rows(n, 2, {0, 1}) : n \in 1..MaxN}}
Ys == HardYs \cup SoftYs

\* -------------------------------------------------------------- parameters
\* The modules of a stage of the network, in order.
Modules(stage) == IF stage.type = "Sequential" THEN stage.mods ELSE <<stage>>

\* The parameters of one module: the reset that drew their initial values
\* (0 is construction) and the train call that last optimised them (0 is
\* none).
Param(init, trainedBy) == [init |-> init, trainedBy |-> trainedBy]

HasParameters(m) == m.type \in {"Linear", "BatchNorm1d", "Custom", "CustomNoReset"}

\* callable(getattr(m, 'reset_parameters', None))
has_reset_parameters(m) == m.type \in {"Linear", "BatchNorm1d", "Custom"}

ConstructedParams(net) ==
  [i \in 1..Len(net) |-> [j \in 1..Len(Modules(net[i])) |-> Param(0, 0)]]

\* EndModel._reset_module, for the reset numbered id
_reset_module(m, p, id) == IF has_reset_parameters(m) THEN Param(id, 0) ELSE p

\* Classifier.reset: _reset_module on every module of the network
reset(net, ps, id) ==
  [i \in 1..Len(net) |->
     [j \in 1..Len(Modules(net[i])) |-> _reset_module(Modules(net[i])[j], ps[i][j], id)]]

\* The effect of Classifier._train on the parameters: every module that has
\* parameters is optimised by the train call numbered id.
Optimised(net, ps, id) ==
  [i \in 1..Len(net) |->
     [j \in 1..Len(Modules(net[i])) |->
        IF HasParameters(Modules(net[i])[j])
        THEN Param(ps[i][j].init, id) ELSE ps[i][j]]]

\* ----------------------------------------------------------------- forward
BadWidth == -1

\* The width a module produces from an input of width w.
ModuleWidth(m, w) ==
  IF w = BadWidth THEN BadWidth
  ELSE IF m.type \in {"Linear", "Custom", "CustomNoReset"}
       THEN (IF w = m.a THEN m.b ELSE BadWidth)
  ELSE IF m.type = "BatchNorm1d" THEN (IF w = m.a THEN w ELSE BadWidth)
  ELSE w

RECURSIVE ModulesWidth(_, _)
ModulesWidth(mods, w) ==
  IF mods = <<>> THEN w ELSE ModulesWidth(Tail(mods), ModuleWidth(Head(mods), w))

RECURSIVE NetworkWidth(_, _)
NetworkWidth(net, w) ==
  IF net = <<>> THEN w
  ELSE NetworkWidth(Tail(net), ModulesWidth(Modules(Head(net)), w))

\* EndModel.forward on an input of shape X = <<n, w>>: the shape of the raw
\* scores.
forward(net, X) ==
  LET w == NetworkWidth(net, X[2])
  IN IF w = BadWidth THEN Raise("DimensionMismatchError") ELSE Return(<<X[1], w>>)

\* EndModel.predict_proba: the row-wise softmax keeps the shape of the scores.
predict_proba(net, X) == forward(net, X)

Xs == (1..MaxN) \X Dims

\* ------------------------------------------------------- paths of a mapping
RECURSIVE LeafPaths(_)
LeafPaths(d) ==
  UNION {IF d[key].t = "m"
         THEN {<<key>> \o p : p \in LeafPaths(d[key].m)}
         ELSE {<<key>>} : key \in DOMAIN d}

RECURSIVE Lookup(_, _)
Lookup(d, path) ==
  IF Len(path) = 1 THEN d[path[1]].v ELSE Lookup(d[path[1]].m, Tail(path))

\* The last value written to each leaf option: w's value where w has the
\* leaf, the earlier value elsewhere.
Written(last, w) ==
  [p \in (DOMAIN last) \cup LeafPaths(w) |->
     IF p \in LeafPaths(w) THEN Lookup(w, p) ELSE last[p]]

\* -------------------------------------------------------------------- state
VARIABLES
  k,        \* self.k, the cardinality
  config,   \* self.config
  network,  \* self.network, the sequence of stages
  params,   \* the parameters of every module of every stage
  ctor,     \* the configuration and modules the network was constructed from
  pc,       \* the position of the running train call, "idle" between calls
  callId,   \* the number of train calls started
  call,     \* the locals of the running train call
  result,   \* what the last finished call returned or raised
  lastSet,  \* the value last written to each leaf option of the configuration
  input     \* the argument of the next _make_layer or _preprocess_Y call

vars == <<k, config, network, params, ctor, pc, callId, call, result, lastSet, input>>

NoCall == [op |-> "none"]

\* Caller-supplied modules whose widths fit layer_out_dims and k.
CustomInput(cfg, r) == Custom(cfg.layer_out_dims.v[1], cfg.layer_out_dims.v[1], r)
CustomMiddle(cfg, r) ==
  LET d == cfg.layer_out_dims.v
  IN ModuleList([i \in 1..(Len(d) - 1) |-> Custom(d[i], d[i + 1], r)])
CustomHead(cfg, kk, r) ==
  Custom(cfg.layer_out_dims.v[Len(cfg.layer_out_dims.v)], kk, r)

\* The <<input_module, middle_modules, head_module>> a caller passes: none,
\* all three (with or without reset_parameters), or only a head.
ModuleChoices(cfg, kk) ==
  {<<None, None, None>>, <<None, None, CustomHead(cfg, kk, FALSE)>>}
  \cup {<<CustomInput(cfg, r), CustomMiddle(cfg, r), CustomHead(cfg, kk, r)>> :
          r \in BOOLEAN}

\* EndModel.__init__(k, input_module, middle_modules, head_module, **kwargs)
__init__(kk, input_module, middle_modules, head_module, kwargs) ==
  LET cfg == recursive_merge_dicts(em_default_config, kwargs)
      net == _build(cfg, kk, input_module, middle_modules, head_module)
  IN /\ k = kk
     /\ config = cfg
     /\ network = net
     /\ params = ConstructedParams(net)
     /\ ctor = [config |-> cfg, input_module |-> input_module,
                middle_modules |-> middle_modules, head_module |-> head_module]
     /\ pc = "idle"
     /\ callId = 0
     /\ call = NoCall
     /\ result = NoCall
     /\ lastSet = Written(Written(<<>>, em_default_config), kwargs)

\* Every construction: any cardinality, any override of one option, and any
\* choice of modules.
Constructions(kwargsSet) ==
  \E kk \in 2..MaxK, kwargs \in kwargsSet :
    \E ms \in ModuleChoices(recursive_merge_dicts(em_default_config, kwargs), kk) :
      __init__(kk, ms[1], ms[2], ms[3], kwargs)

Init == Constructions(TopOverrides) /\ input = None

\* update_config merging the update into the defaults instead of self.config.
update_config_from_defaults(update_dict) ==
  /\ pc = "idle"
  /\ config' = recursive_merge_dicts(em_default_config, update_dict)
  /\ lastSet' = Written(lastSet, update_dict)
  /\ result' = [op |-> "update_config", update_dict |-> update_dict]
  /\ UNCHANGED <<k, network, params, ctor, pc, callId, call, input>>

\* update_config rebuilding the network from the updated configuration.
update_config_rebuild(update_dict) ==
  /\ pc = "idle"
  /\ config' = recursive_merge_dicts(config, update_dict)
  /\ lastSet' = Written(lastSet, update_dict)
  /\ result' = [op |-> "update_config", update_dict |-> update_dict]
  /\ network' = _build(config', k, None, None, ctor.head_module)
  /\ params' = ConstructedParams(network')
  /\ UNCHANGED <<k, ctor, pc, callId, call, input>>

\* EndModel.update_config
update_config(update_dict) ==
  /\ pc = "idle"
  /\ config' = recursive_merge_dicts(config, update_dict)
  /\ lastSet' = Written(lastSet, update_dict)
  /\ result' = [op |-> "update_config", update_dict |-> update_dict]
  /\ UNCHANGED <<k, network, params, ctor, pc, callId, call, input>>

\* train merging its overrides into a copy of self.config for this call only.
train_snapshot(Y_train, kwargs) ==
  /\ pc = "idle"
  /\ callId < MaxCalls
  /\ config' = config
  /\ lastSet' = Written(lastSet, kwargs)
  /\ callId' = callId + 1
  /\ call' = [op |-> "train", kwargs |-> kwargs, Y_train |-> Y_train,
              paramsAt |-> params, resets |-> 0, trains |-> 0]
  /\ pc' = "make_data_loader"
  /\ result' = NoCall
  /\ UNCHANGED <<k, network, params, ctor, input>>

\* EndModel.train, lines 152-156: merge the overrides into self.config and
\* convert the labels.
train(Y_train, kwargs) ==
  /\ pc = "idle"
  /\ callId < MaxCalls
  /\ config' = recursive_merge_dicts(config, kwargs)
  /\ lastSet' = Written(lastSet, kwargs)
  /\ callId' = callId + 1
  /\ call' = [op |-> "train", kwargs |-> kwargs, Y_train |-> Y_train,
              paramsAt |-> params, resets |-> 0, trains |-> 0]
  /\ pc' = "make_data_loader"
  /\ result' = NoCall
  /\ UNCHANGED <<k, network, params, ctor, input>>

\* train resetting the network before it makes the data loader.
train_make_data_loader_after_reset ==
  /\ pc = "make_data_loader"
  /\ LET Y == _preprocess_Y(call.Y_train)
     IN IF Y.raised
        THEN /\ pc' = "idle"
             /\ result' = [op |-> "train", status |-> Y.error,
                           kwargs |-> call.kwargs, paramsAt |-> call.paramsAt,
                           resets |-> call.resets, trains |-> call.trains]
             /\ call' = NoCall
        ELSE /\ pc' = "reset"
             /\ UNCHANGED <<result, call>>
  /\ params' = reset(network, params, callId)
  /\ UNCHANGED <<k, config, network, ctor, callId, lastSet, input>>

\* EndModel.train, lines 159-160, and _make_data_loader: preprocess the
\* labels; a failure ends the call.
train_make_data_loader ==
  /\ pc = "make_data_loader"
  /\ LET Y == _preprocess_Y(call.Y_train)
     IN IF Y.raised
        THEN /\ pc' = "idle"
             /\ result' = [op |-> "train", status |-> Y.error,
                           kwargs |-> call.kwargs, paramsAt |-> call.paramsAt,
                           resets |-> call.resets, trains |-> call.trains]
             /\ call' = NoCall
        ELSE /\ pc' = "reset"
             /\ UNCHANGED <<result, call>>
  /\ UNCHANGED <<k, config, network, params, ctor, callId, lastSet, input>>

\* train without the call of self.reset().
train_without_reset ==
  /\ pc = "reset"
  /\ pc' = "_train"
  /\ UNCHANGED <<k, config, network, params, ctor, callId, call, result, lastSet, input>>

\* EndModel.train, line 163: self.reset()
train_reset ==
  /\ pc = "reset"
  /\ params' = reset(network, params, callId)
  /\ call' = [call EXCEPT !.resets = @ + 1]
  /\ pc' = "_train"
  /\ UNCHANGED <<k, config, network, ctor, callId, result, lastSet, input>>

\* EndModel.train, lines 166-169: the delegated optimisation loop, which
\* completes or raises.
train__train ==
  /\ pc = "_train"
  /\ params' = Optimised(network, params, callId)
  /\ \E status \in {"ok", "raised"} :
       result' = [op |-> "train", status |-> status,
                  resets |-> call.resets, trains |-> call.trains + 1]
  /\ call' = NoCall
  /\ pc' = "idle"
  /\ UNCHANGED <<k, config, network, ctor, callId, lastSet, input>>

\* A call of EndModel.forward
call_forward(X) ==
  /\ pc = "idle"
  /\ LET r == forward(network, X)
     IN result' = [op |-> "forward", n |-> X[1], r |-> r]
  /\ UNCHANGED <<k, config, network, params, ctor, pc, callId, call, lastSet, input>>

\* A call of EndModel.predict_proba
call_predict_proba(X) ==
  /\ pc = "idle"
  /\ LET r == predict_proba(network, X)
     IN result' = [op |-> "predict_proba", n |-> X[1], r |-> r]
  /\ UNCHANGED <<k, config, network, params, ctor, pc, callId, call, lastSet, input>>

\* The lifecycle: every construction, then update_config, train, forward and
\* predict_proba calls in any order, with overrides that change the options
\* the network was built from.
LifecycleOverrides ==
  {EmptyDict,
   [layer_out_dims |-> Val(<<1>>), batchnorm |-> Val(TRUE), dropout |-> Val(50)]}
LifecycleYs == {Tensor("long", 1, <<<<1>>>>), Tensor("float", 1, <<<<1>>>>)}

Next ==
  \/ \E u \in LifecycleOverrides : update_config(u)
  \/ \E Y \in LifecycleYs, kwargs \in LifecycleOverrides : train(Y, kwargs)
  \/ train_make_data_loader
  \/ train_reset
  \/ train__train
  \/ \E X \in Xs : call_forward(X)
  \/ \E X \in Xs : call_predict_proba(X)

Spec == Init /\ [][Next]_vars

\* The configuration: one default construction, then update_config and train
\* calls with every override.
InitConfig == __init__(2, None, None, None, EmptyDict) /\ input = None
ConfigYs == {Tensor("long", 2, <<<<2>>, <<0>>>>), Tensor("float", 2, <<<<2>>, <<0>>>>)}

ConfigKwargs ==
  {EmptyDict, Dict1("dropout", Val(50)),
   Dict1("train_config", Sub(Dict1("data_loader_config", Sub(Dict1("batch_size", Val(1)))))),
   Dict1("train_config", Sub(Dict1("data_loader_config", Sub(Dict1("num_workers", Val(0))))))}

NextConfig ==
  \/ \E u \in Overrides : update_config(u)
  \/ \E Y \in ConfigYs, kwargs \in ConfigKwargs : train(Y, kwargs)
  \/ train_make_data_loader
  \/ train_reset
  \/ train__train

SpecConfig == InitConfig /\ [][NextConfig]_vars

\* The layer builder: a model constructed with every combination of
\* batchnorm and dropout, and one _make_layer call on every module and
\* output_dim.
LayerKwargs ==
  {recursive_merge_dicts(Dict1("batchnorm", Val(b)), Dict1("dropout", Val(r))) :
     b \in BOOLEAN, r \in DropoutRates}
LayerModules ==
  {IdentityModule} \cup {Linear(i, o) : i \in Dims, o \in Dims}
  \cup {Custom(1, 1, r) : r \in BOOLEAN}
LayerArgs ==
  {[type |-> "_make_layer", module |-> m, output_dim |-> d] :
     m \in LayerModules, d \in {NoneDim} \cup Dims}

InitLayer ==
  /\ \E kwargs \in LayerKwargs : __init__(2, None, None, None, kwargs)
  /\ input \in LayerArgs

\* A call of EndModel._make_layer on the pending arguments
call_make_layer ==
  /\ pc = "idle"
  /\ input.type = "_make_layer"
  /\ result' = [op |-> "_make_layer", module |-> input.module,
                output_dim |-> input.output_dim,
                r |-> _make_layer(config, input.module, input.output_dim)]
  /\ input' = None
  /\ UNCHANGED <<k, config, network, params, ctor, pc, callId, call, lastSet>>

NextLayer == call_make_layer

SpecLayer == InitLayer /\ [][NextLayer]_vars

\* The label preprocessor: one _preprocess_Y call on every label tensor.
InitPre ==
  /\ __init__(2, None, None, None, EmptyDict)
  /\ input \in {[type |-> "_preprocess_Y", Y |-> Y] : Y \in Ys}

\* A call of EndModel._preprocess_Y on the pending argument
call_preprocess_Y ==
  /\ pc = "idle"
  /\ input.type = "_preprocess_Y"
  /\ result' = [op |-> "_preprocess_Y", Y |-> input.Y, r |-> _preprocess_Y(input.Y)]
  /\ input' = None
  /\ UNCHANGED <<k, config, network, params, ctor, pc, callId, call, lastSet>>

NextPre == call_preprocess_Y

SpecPre == InitPre /\ [][NextPre]_vars

\* ------------------------------------------------------------------- claims
IsHard(Y) == Y.dim = 1 \/ NumCols(Y) = 1
RowSum(row) == Cardinality({j \in 1..Len(row) : row[j] = 1})
BatchSizePath == <<"train_config", "data_loader_config", "batch_size">>
NumWorkersPath == <<"train_config", "data_loader_config", "num_workers">>

\* C1: for a non-identity module, _make_layer returns the sequence
\* [module, ReLU], then a batch normalisation of width output_dim exactly when
\* batchnorm is on and output_dim is given, then a dropout of the configured
\* rate exactly when the rate is positive, and nothing else.
C1_LayerOrder ==
  (result.op = "_make_layer" /\ result.module.type /= "IdentityModule") =>
    LET mods == result.r.mods
        bn == config.batchnorm.v /\ result.output_dim /= NoneDim
        dp == config.dropout.v > 0
        n == 2 + (IF bn THEN 1 ELSE 0) + (IF dp THEN 1 ELSE 0)
    IN /\ result.r.type = "Sequential"
       /\ Len(mods) = n
       /\ mods[1] = result.module
       /\ mods[2] = ReLU
       /\ bn => mods[3] = BatchNorm1d(result.output_dim)
       /\ dp => mods[n] = Dropout(config.dropout.v)

C1_Witness ==
  /\ result.op = "_make_layer"
  /\ result.module.type = "Linear"
  /\ result.r.type = "Sequential"
  /\ Len(result.r.mods) = 4

\* C2: a model constructed from layer_out_dims = [d0..dm] with no explicit
\* module has m+2 stages: the identity input, for each i a middle stage that
\* starts with a linear map from d(i-1) to d(i), and the bare linear head from
\* dm to k; every stage accepts the width the stage before it produces, the
\* network accepts width d0 only and produces width k.
C2_Widths(d, i) ==
  NetworkWidth(SubSeq(network, 1, i), d[1])

C2_DefaultNetwork ==
  (ctor.input_module = None /\ ctor.middle_modules = None /\ ctor.head_module = None) =>
    LET d == ctor.config.layer_out_dims.v
        m == Len(d) - 1
    IN /\ Len(network) = m + 2
       /\ network[1] = IdentityModule
       /\ \A i \in 1..m :
            /\ network[i + 1].type = "Sequential"
            /\ network[i + 1].mods[1] = Linear(d[i], d[i + 1])
            /\ C2_Widths(d, i + 1) = d[i + 1]
       /\ network[m + 2] = Linear(d[m + 1], k)
       /\ C2_Widths(d, 1) = d[1]
       /\ NetworkWidth(network, d[1]) = k
       /\ \A w \in Dims : w /= d[1] => NetworkWidth(network, w) = BadWidth

C2_Witness ==
  /\ ctor.input_module = None /\ ctor.middle_modules = None /\ ctor.head_module = None
  /\ Len(network) = 3
  /\ ctor.config.layer_out_dims.v[1] /= ctor.config.layer_out_dims.v[2]
  /\ k = 3

\* C3: predict_proba on n examples returns n rows and k-1 columns.
C3_ProbaWidth ==
  (result.op = "predict_proba" /\ ~result.r.raised) =>
    result.r.value = <<result.n, k - 1>>

\* C4: for integral hard labels of shape [n] or [n,1] with maximum c,
\* _preprocess_Y returns an [n, c] matrix whose row i has a single 1 in
\* column Y[i] when Y[i] >= 1 (columns counted from 1, i.e. index Y[i]-1) and
\* is all zeros when Y[i] = 0.
C4_OneHot ==
  (result.op = "_preprocess_Y" /\ IsHard(result.Y) /\ result.Y.dtype = "long") =>
    LET Y == result.Y
        c == TensorMax(Y)
    IN /\ ~result.r.raised
       /\ result.r.value.dim = 2
       /\ NumRows(result.r.value) = NumRows(Y)
       /\ \A i \in 1..NumRows(Y) :
            LET row == result.r.value.rows[i]
            IN /\ Len(row) = c
               /\ \A j \in 1..c : row[j] = (IF j = Y.rows[i][1] THEN 1 ELSE 0)
               /\ RowSum(row) <= 1

C4_Witness ==
  /\ result.op = "_preprocess_Y"
  /\ result.Y.dtype = "long"
  /\ result.Y.dim = 1
  /\ result.Y.rows = <<<<0>>, <<2>>>>
  /\ ~result.r.raised

\* C5: _preprocess_Y raises a type conversion error, and returns nothing,
\* exactly when Y is 1-D or single-column and is not a tensor of integral
\* class indices; a 2-D Y with more than one column is returned unchanged
\* whatever its type.
C5_TypeError ==
  (result.op = "_preprocess_Y") =>
    /\ result.r.raised <=> (IsHard(result.Y) /\ result.Y.dtype /= "long")
    /\ result.r.raised =>
         (result.r.error = "TypeConversionError" /\ "value" \notin DOMAIN result.r)
    /\ ~IsHard(result.Y) => (~result.r.raised /\ result.r.value = result.Y)

C5_Witness ==
  /\ result.op = "_preprocess_Y"
  /\ result.Y.dtype = "float"
  /\ IsHard(result.Y)
  /\ result.r.raised

\* C6: update_config(u) sets every leaf option of u to u's value, leaves every
\* other leaf option, nested ones included, at its prior value, drops none,
\* and changes nothing when u has no leaf option.
C6_UpdateFrame ==
  [][(result'.op = "update_config" /\ update_config(result'.update_dict)) =>
       LET u == result'.update_dict
       IN /\ \A p \in LeafPaths(u) : Lookup(config', p) = Lookup(u, p)
          /\ \A p \in LeafPaths(config) \ LeafPaths(u) :
               p \in LeafPaths(config') /\ Lookup(config', p) = Lookup(config, p)
          /\ LeafPaths(config') = LeafPaths(config) \cup LeafPaths(u)
          /\ LeafPaths(u) = {} => config' = config]_vars

C6_Witness ==
  /\ result.op = "update_config"
  /\ callId = 1
  /\ result.update_dict =
       Dict1("train_config", Sub(Dict1("data_loader_config", Sub(Dict1("batch_size", Val(1))))))
  /\ Lookup(config, BatchSizePath) /= Lookup(em_default_config, BatchSizePath)
  /\ Lookup(config, NumWorkersPath) /= Lookup(em_default_config, NumWorkersPath)
  /\ Lookup(config, <<"dropout">>) = 50

C8_ConfigPersists ==
  /\ DOMAIN lastSet = LeafPaths(config)
  /\ \A p \in LeafPaths(config) : Lookup(config, p) = lastSet[p]

C8_Witness ==
  /\ callId = 2
  /\ call /= NoCall
  /\ "dropout" \notin DOMAIN call.kwargs
  /\ BatchSizePath \in LeafPaths(call.kwargs)
  /\ Lookup(config, <<"dropout">>) = 50
  /\ Lookup(config, <<"dropout">>) /= Lookup(ctor.config, <<"dropout">>)

\* C9: the stages of the network are those built at construction, whatever
\* update_config, train, forward and predict_proba calls follow and whatever
\* they do to layer_out_dims, batchnorm and dropout in self.config.
C9_NetworkFixed ==
  /\ network = _build(ctor.config, k, ctor.input_module, ctor.middle_modules,
                      ctor.head_module)
  /\ DOMAIN params = DOMAIN network
  /\ \A i \in DOMAIN network : Len(params[i]) = Len(Modules(network[i]))

C9_Witness ==
  /\ callId = 2
  /\ pc = "idle"
  /\ result.op = "predict_proba"
  /\ config.layer_out_dims.v /= ctor.config.layer_out_dims.v
  /\ config.batchnorm.v /= ctor.config.batchnorm.v
  /\ config.dropout.v /= ctor.config.dropout.v

\* C10: a train call that fails while preprocessing the labels has reset
\* nothing and has not run the delegated loop, so the parameters are those
\* from before the call, while self.config holds the call's overrides.
C10_FailedTrain ==
  (result.op = "train" /\ result.status = "TypeConversionError") =>
    /\ pc = "idle"
    /\ result.resets = 0
    /\ result.trains = 0
    /\ params = result.paramsAt
    /\ \A p \in LeafPaths(result.kwargs) :
         Lookup(config, p) = Lookup(result.kwargs, p)

C10_Witness ==
  /\ result.op = "train"
  /\ result.status = "TypeConversionError"
  /\ callId = 2
  /\ "dropout" \in DOMAIN result.kwargs
  /\ ctor.config.dropout.v /= result.kwargs.dropout.v
  /\ \E i \in 1..Len(network) : \E j \in 1..Len(Modules(network[i])) :
       params[i][j].trainedBy = 1
====
